---- MODULE Spec2Model ----
(***************************************************************************)
(* Availability and scheduling engine of barber_growth_engine:             *)
(*   - availability_blocks / appointments / barber_weekly_schedules tables *)
(*   - generate_free_time_slots            (slot generator, plpgsql)       *)
(*   - sync_barber_schedules_to_availability (block materializer, plpgsql) *)
(*   - ConfirmationStep.handleConfirm      (public booking, check+insert)  *)
(*   - NewAppointmentModal.handleSubmit    (internal booking, insert)      *)
(*   - updateAppointmentStatus, NewAvailabilityModal.handleSubmit,         *)
(*     saveSchedules                                                       *)
(* Times of day are minutes since 00:00 (the forms produce HH:MM values),  *)
(* dates are day numbers, day 0 being a Sunday.                            *)
(***************************************************************************)
EXTENDS Integers, Sequences, FiniteSets, TLC

\* ---------------------------------------------------------------- bounds
MaxBlocks == 2
MaxAppts == 2
MaxMatBlocks == 4
MaxVisits == 2

\* ------------------------------------------------------ program constants
MinutesPerDay == 1440
SlotStep == 15
DefaultDuration == 30

NoStaff == "null"

Businesses == {"b1", "b2"}
Staff == {"s1", "s2"}
Customers == {"c1", "c2"}
Statuses == {"scheduled", "completed", "cancelled", "no_show"}

\* businesses.owner_id
OwnerOf(biz) == IF biz = "b1" THEN "o1" ELSE "o2"
Owners == {"o1", "o2"}

\* ------------------------------------------------------------ input pools
\* service durations offered by the services table
Durations == {30, 45}

\* the days the booking screens are opened on (day 1 is a Monday)
BookingDates == {1}

\* what the staff types into NewAvailabilityModal
BlockInputs ==
  { [business_id |-> "b1", staff_id |-> "s1", date |-> 1, start_time |-> 540,  end_time |-> 1020, max_clients |-> 1],
    [business_id |-> "b1", staff_id |-> "s1", date |-> 1, start_time |-> 540,  end_time |-> 1020, max_clients |-> 2],
    [business_id |-> "b1", staff_id |-> NoStaff, date |-> 1, start_time |-> 600, end_time |-> 660, max_clients |-> 1],
    [business_id |-> "b1", staff_id |-> "s1", date |-> 1, start_time |-> 1380, end_time |-> 1425, max_clients |-> 1],
    [business_id |-> "b2", staff_id |-> "s1", date |-> 1, start_time |-> 540,  end_time |-> 1020, max_clients |-> 1] }

\* what the staff types into NewAppointmentModal (time is a free time input)
AppointmentInputs ==
  { [business_id |-> "b1", staff_id |-> "s1", customer_id |-> "c1", date |-> 1, time |-> 600,  duration |-> 30],
    [business_id |-> "b1", staff_id |-> "s1", customer_id |-> "c1", date |-> 1, time |-> 615,  duration |-> 30],
    [business_id |-> "b1", staff_id |-> "s1", customer_id |-> "c1", date |-> 1, time |-> 1410, duration |-> 45],
    [business_id |-> "b1", staff_id |-> "s2", customer_id |-> "c1", date |-> 1, time |-> 600,  duration |-> 30],
    [business_id |-> "b2", staff_id |-> "s1", customer_id |-> "c1", date |-> 1, time |-> 600,  duration |-> 30] }

VARIABLES
  blocks,     \* availability_blocks rows
  appts,      \* appointments rows
  rules,      \* barber_weekly_schedules rows
  client,     \* public booking wizard sessions (ConfirmationStep)
  slotCall,   \* the generate_free_time_slots call and its answer, while it is the last operation
  mat,        \* in-flight sync_barber_schedules_to_availability transactions
  matLog,     \* the consecutive completed materializer calls (at most the last two)
  customers,  \* customers rows: the visit statistics the appointment trigger keeps
  wizard,     \* PublicBookingPage: the step shown and the selections of one visitor
  page        \* BookingsPage: the list shown and the status updates in flight

vars == <<blocks, appts, rules, client, slotCall, mat, matLog, customers, wizard, page>>

\* ------------------------------------------------------------- time type
\* time + interval on the database time type: wraps at 24:00
AddMinutes(t, m) == (t + m) % MinutesPerDay

\* to_char(v_current_time, 'HH24:MI')
ToChar(t) == <<t \div 60, t % 60>>

\* 'HH:MM' text sent back by the client, cast to time by the database
ParseTime(hm) == hm[1] * 60 + hm[2]

\* column = parameter in SQL: never true when either side is NULL
SqlEq(x, y) == x # NoStaff /\ y # NoStaff /\ x = y

\* ------------------------------------------------- generate_free_time_slots
\* COALESCE(max_clients, 1) as block_capacity
BlockCapacity(b) == b.max_clients

\* the overlap count without the status filter
OverlapCountAnyStatus(as, q, cur, slotEnd) ==
  Cardinality({ a \in as :
      /\ a.business_id = q.business_id
      /\ SqlEq(a.staff_id, q.staff_id)
      /\ a.date = q.date
      /\ cur < AddMinutes(a.time, a.duration)
      /\ slotEnd > a.time })

\* the overlap count without the business filter
OverlapCountAllBusinesses(as, q, cur, slotEnd) ==
  Cardinality({ a \in as :
      /\ SqlEq(a.staff_id, q.staff_id)
      /\ a.date = q.date
      /\ a.status = "scheduled"
      /\ cur < AddMinutes(a.time, a.duration)
      /\ slotEnd > a.time })

\* SELECT COUNT(*) INTO v_overlap_count FROM appointments WHERE ...
OverlapCount(as, q, cur, slotEnd) ==
  Cardinality({ a \in as :
      /\ a.business_id = q.business_id
      /\ SqlEq(a.staff_id, q.staff_id)
      /\ a.date = q.date
      /\ a.status = "scheduled"
      /\ cur < AddMinutes(a.time, a.duration)
      /\ slotEnd > a.time })

\* the slot fits the block: v_slot_end_time <= v_block.end_time
SlotFits(b, slotEnd) == slotEnd <= b.end_time

\* the capacity test: v_overlap_count < v_effective_capacity
HasCapacity(cnt, b) == cnt < BlockCapacity(b)

\* The WHILE loop over one block.  cur is v_current_time, seen the values it
\* has had, out the slots appended for this block, cons the start times that
\* passed the fit test.  The loop never exits when v_current_time comes back
\* to a value it had before (the time type wrapped past midnight).  That is
\* settled at the step that wraps: the step divides the day, so after the wrap
\* v_current_time takes the values start_time + 15k of the same day again, all
\* of them at most the value it wrapped from, which is before end_time.
RECURSIVE WalkBlock(_, _, _, _, _, _, _)
WalkBlock(as, b, q, cur, seen, out, cons) ==
  IF ~(cur < b.end_time) THEN [returns |-> TRUE, free |-> out, considered |-> cons]
  ELSE IF cur \in seen THEN [returns |-> FALSE, free |-> out, considered |-> cons]
  ELSE IF cur + SlotStep >= MinutesPerDay THEN [returns |-> FALSE, free |-> out, considered |-> cons]
  ELSE LET slotEnd == AddMinutes(cur, q.duration)
           fits == SlotFits(b, slotEnd)
           take == fits /\ HasCapacity(OverlapCount(as, q, cur, slotEnd), b)
       IN WalkBlock(as, b, q, AddMinutes(cur, SlotStep), seen \cup {cur},
                    IF take THEN Append(out, ToChar(cur)) ELSE out,
                    IF fits THEN cons \cup {cur} ELSE cons)

SlotsOfBlock(as, b, q) == WalkBlock(as, b, q, b.start_time, {}, <<>>, {})

\* the FOR loop reading only the rows of the asked staff member
MatchingBlocksOwnStaff(bs, q) ==
  { b \in bs : /\ b.business_id = q.business_id
               /\ SqlEq(b.staff_id, q.staff_id)
               /\ b.date = q.date }

\* the rows the FOR loop reads
MatchingBlocks(bs, q) ==
  { b \in bs : /\ b.business_id = q.business_id
               /\ (SqlEq(b.staff_id, q.staff_id) \/ b.staff_id = NoStaff)
               /\ b.date = q.date }

\* ORDER BY start_time: rows with equal start_time come in any order
BlockOrders(S) ==
  { o \in [1..Cardinality(S) -> S] :
      /\ \A i, j \in 1..Cardinality(S) : i # j => o[i] # o[j]
      /\ \A i, j \in 1..Cardinality(S) : i < j => o[i].start_time <= o[j].start_time }

RECURSIVE ConcatBlocks(_, _, _, _, _)
ConcatBlocks(as, q, ord, i, acc) ==
  IF i > Len(ord) THEN [status |-> "ok", free_slots |-> acc]
  ELSE LET r == SlotsOfBlock(as, ord[i], q)
       IN IF ~r.returns THEN [status |-> "timeout", free_slots |-> <<>>]
          ELSE ConcatBlocks(as, q, ord, i + 1, acc \o r.free)

\* generate_free_time_slots(p_staff_id, p_business_id, p_date, p_service_duration)
\* for one order ord of the matching rows
generate_free_time_slots(bs, as, q, ord) == ConcatBlocks(as, q, ord, 1, <<>>)

SeqRange(s) == { s[i] : i \in 1..Len(s) }

\* the (staff, business, date, service duration) the booking screens ask slots for
SlotQueries ==
  { [business_id |-> "b1", staff_id |-> "s1", date |-> 1, duration |-> 30],
    [business_id |-> "b1", staff_id |-> "s1", date |-> 1, duration |-> 45],
    [business_id |-> "b1", staff_id |-> "s2", date |-> 1, duration |-> 30],
    [business_id |-> "b2", staff_id |-> "s1", date |-> 1, duration |-> 30] }

\* the booking scenario: one staff member's day, entered twice with different capacity
BookBlockInputs == { in \in BlockInputs : in.business_id = "b1" /\ in.staff_id = "s1" /\ in.start_time = 540 }
BookAppointmentInputs == { in \in AppointmentInputs : in.business_id = "b1" /\ in.staff_id = "s1" /\ in.time < 720 }
BookQueries == { q \in SlotQueries : q.business_id = "b1" /\ q.staff_id = "s1" /\ q.duration = 30 }
\* the entry of the slot list the visitors click on: 10:15
WantedTimes == { <<10, 15>> }
\* slot generator scenario: the appointments entered
SlotAppointmentInputs == { in \in AppointmentInputs : in.time # 615 }

\* ------------------------------------------------------------------ rows
BlockKey(b) == <<b.business_id, b.staff_id, b.date, b.start_time, b.end_time>>

\* gen_random_uuid() of availability_blocks.id: an id no row has (the key the
\* row is inserted with and the smallest copy number not in use)
FreshBlockId(bs, k) ==
  LET used == { b.id[2] : b \in { x \in bs : x.id[1] = k } }
  IN <<k, CHOOSE n \in 0..Cardinality(bs) :
            n \notin used /\ \A m \in 0..(n - 1) : m \in used>>

\* INSERT INTO availability_blocks (...)
\* destructive regeneration: the rows of the key's (business, staff, date)
\* are dropped before the new row is written
RegenerateBlock(bs, k, cap) ==
  { b \in bs : <<b.business_id, b.staff_id, b.date>> # <<k[1], k[2], k[3]>> }
    \cup {[id |-> FreshBlockId(bs, k), business_id |-> k[1], staff_id |-> k[2],
            date |-> k[3], start_time |-> k[4], end_time |-> k[5], max_clients |-> cap]}

InsertBlock(bs, k, cap) ==
  bs \cup { [id |-> FreshBlockId(bs, k), business_id |-> k[1], staff_id |-> k[2],
             date |-> k[3], start_time |-> k[4], end_time |-> k[5],
             max_clients |-> cap] }

ApptKey(in) == <<in.business_id, in.staff_id, in.customer_id, in.date, in.time>>

\* gen_random_uuid() of appointments.id
FreshApptId(as, k) ==
  LET used == { a.id[2] : a \in { x \in as : x.id[1] = k } }
  IN <<k, CHOOSE n \in 0..Cardinality(as) :
            n \notin used /\ \A m \in 0..(n - 1) : m \in used>>

\* a client that sends the insert again after the first one was stored
InsertApptTwice(as, in, src) ==
  LET row(s) == [id |-> FreshApptId(s, ApptKey(in)), business_id |-> in.business_id,
                 staff_id |-> in.staff_id, customer_id |-> in.customer_id,
                 date |-> in.date, time |-> in.time, duration |-> in.duration,
                 status |-> "scheduled", source |-> src]
  IN as \cup {row(as)} \cup {row(as \cup {row(as)})}

\* the row both booking surfaces insert: status 'scheduled'
ApptRow(as, in, src) ==
  [id |-> FreshApptId(as, ApptKey(in)), business_id |-> in.business_id,
   staff_id |-> in.staff_id, customer_id |-> in.customer_id,
   date |-> in.date, time |-> in.time, duration |-> in.duration,
   status |-> "scheduled", source |-> src]

\* INSERT INTO appointments (...)
InsertAppt(as, in, src) == as \cup { ApptRow(as, in, src) }

\* ------------------------------------------- trigger_update_customer_stats
\* a customers row as the forms create it: total_visits 0, last_visit_date NULL
\* (the date is <<>> when NULL and <<d>> otherwise)
NewCustomer == [total_visits |-> 0, last_visit_date |-> <<>>]

\* the trigger condition without the test on OLD.status
StatsFiresOnCompleted(op, old, new) == new.status = "completed"

\* the condition of update_customer_stats; old is OLD.status on an UPDATE
StatsFires(op, old, new) ==
  \/ op = "INSERT" /\ new.status = "completed"
  \/ op = "UPDATE" /\ new.status = "completed" /\ old # "completed"

\* update_customer_stats(), AFTER INSERT OR UPDATE ON appointments FOR EACH ROW
update_customer_stats(cs, op, old, new) ==
  IF StatsFires(op, old, new)
  THEN [cs EXCEPT ![new.customer_id] =
          [total_visits |-> @.total_visits + 1, last_visit_date |-> <<new.date>>]]
  ELSE cs

\* --------------------------------------------------------------- sessions
Clients == {"u1", "u2"}
MatProcs == {"m1", "m2"}

IdleClient == [pc |-> "idle", req |-> <<>>, outcome |-> "none", during |-> {}]
IdleMat == [pc |-> "idle"]

\* useState of BookingsPage before its first fetch: appointments [] (shown holds
\* <<id, status>> of each appointment of the list), updatingStatus null (<<>>);
\* calls are the updateAppointmentStatus calls that have not settled
NewPage == [shown |-> {}, updatingStatus |-> <<>>, calls |-> {}]

\* useState of PublicBookingPage: step 1, no barber (null), no service, date ''
\* and time '' (a selection that is not made is <<>>); availableTimeSlots
\* is the state of DateTimeSelectionStep, [] whenever that step is mounted
NewWizard ==
  [currentStep |-> 1, selectedBarberId |-> NoStaff, selectedService |-> <<>>,
   selectedDate |-> <<>>, selectedTime |-> <<>>, availableTimeSlots |-> {}]
NoSlotCall == [status |-> "none"]

InFlight == { c \in Clients : client[c].pc \in {"confirm", "insert"} }

\* ---------------------------------------------- NewAvailabilityModal (UI)
\* handleSubmit: a plain insert of what the form holds
NewAvailabilitySubmit(in) ==
  /\ Cardinality(blocks) < MaxBlocks
  /\ blocks' = InsertBlock(blocks, BlockKey(in), in.max_clients)
  /\ matLog' = <<>>
  /\ UNCHANGED <<page, wizard, customers, appts, rules, client, mat>>
  /\ slotCall' = NoSlotCall

\* ----------------------------------------------- NewAppointmentModal (UI)
\* duration_minutes: selectedService?.duration_minutes || 30
FormDuration(d) == IF d = 0 THEN DefaultDuration ELSE d

\* handleSubmit: a plain insert, status 'scheduled', source left to its default
NewAppointmentSubmit(in) ==
  /\ Cardinality(appts) + Cardinality(InFlight) < MaxAppts
  /\ appts' = InsertAppt(appts, [in EXCEPT !.duration = FormDuration(in.duration)], "internal")
  /\ customers' = update_customer_stats(customers, "INSERT", "none",
                     ApptRow(appts, [in EXCEPT !.duration = FormDuration(in.duration)], "internal"))
  /\ matLog' = <<>>
  /\ UNCHANGED <<page, wizard, blocks, rules, client, mat>>
  /\ slotCall' = NoSlotCall

\* ------------------------------------------------- updateAppointmentStatus
\* UPDATE appointments SET status = newStatus WHERE id = appointmentId
UpdateAppointmentStatus(a, newStatus) ==
  /\ a \in appts
  /\ StatsFires("UPDATE", a.status, [a EXCEPT !.status = newStatus])
       => customers[a.customer_id].total_visits < MaxVisits
  /\ appts' = (appts \ {a}) \cup { [a EXCEPT !.status = newStatus] }
  /\ customers' = update_customer_stats(customers, "UPDATE", a.status, [a EXCEPT !.status = newStatus])
  /\ matLog' = <<>>
  /\ UNCHANGED <<page, wizard, blocks, rules, client, mat>>
  /\ slotCall' = NoSlotCall

\* ------------------------------------------- supabase.rpc(generate_free_time_slots)
CallFreeSlots(q) ==
  /\ \E ord \in BlockOrders(MatchingBlocks(blocks, q)) :
       slotCall' = [status |-> "called", q |-> q,
                    result |-> generate_free_time_slots(blocks, appts, q, ord)]
  /\ matLog' = <<>>
  /\ UNCHANGED <<page, wizard, customers, blocks, appts, rules, client, mat>>

\* ------------------------------------------------ public booking wizard
\* setAvailableTimeSlots(data?.free_slots || []); an RPC error shows no slot
Offered(r) == IF r.status = "ok" THEN SeqRange(r.free_slots) ELSE {}

\* DateTimeStep: the slot list is fetched for the chosen staff, service and
\* date, the visitor picks one entry and continues to the confirmation step.
SelectSlot(c, q) ==
  /\ client[c].pc \in {"idle", "done"}
  /\ Cardinality(appts) + Cardinality(InFlight) < MaxAppts
  /\ \E ord \in BlockOrders(MatchingBlocks(blocks, q)) :
       \E t \in Offered(generate_free_time_slots(blocks, appts, q, ord)) \cap WantedTimes :
         client' = [d \in Clients |->
           IF d = c
           THEN [pc |-> "confirm", outcome |-> "none", during |-> {},
                 req |-> [business_id |-> q.business_id, staff_id |-> q.staff_id,
                          customer_id |-> "c1", date |-> q.date,
                          selectedTime |-> t, duration |-> q.duration]]
           ELSE [client[d] EXCEPT !.during = @ \ {c}]]
  /\ matLog' = <<>>
  /\ UNCHANGED <<page, wizard, customers, blocks, appts, rules, slotCall, mat>>

\* the double-booking query of handleConfirm: scheduled appointments of the
\* same business, date, staff with appointment_time = selectedTime
ExistingAppointments(as, r) ==
  { a \in as : /\ a.business_id = r.business_id
               /\ a.date = r.date
               /\ a.time = ParseTime(r.selectedTime)
               /\ a.status = "scheduled"
               /\ SqlEq(a.staff_id, r.staff_id) }

\* if (existingAppointments && existingAppointments.length > 0) throw ...
SlotTaken(as, r) == Cardinality(ExistingAppointments(as, r)) > 0

\* handleConfirm up to the answer of the double-booking query
ConfirmCheck(c) ==
  /\ client[c].pc = "confirm"
  /\ client' = [client EXCEPT ![c] =
       IF SlotTaken(appts, client[c].req)
       THEN [@ EXCEPT !.pc = "done", !.outcome = "conflict",
                      !.during = { d \in Clients \ {c} : client[d].pc = "insert" }]
       ELSE [@ EXCEPT !.pc = "insert",
                      !.during = { d \in Clients \ {c} : client[d].pc = "insert" }]]
  /\ matLog' = <<>>
  /\ UNCHANGED <<page, wizard, customers, blocks, appts, rules, slotCall, mat>>

\* the query itself fails: throw new Error('Failed to verify availability')
ConfirmCheckError(c) ==
  /\ client[c].pc = "confirm"
  /\ client' = [client EXCEPT ![c] = [@ EXCEPT !.pc = "done", !.outcome = "error"]]
  /\ matLog' = <<>>
  /\ UNCHANGED <<page, wizard, customers, blocks, appts, rules, slotCall, mat>>

\* handleConfirm from the insert on
ConfirmInsert(c) ==
  /\ client[c].pc = "insert"
  /\ LET r == client[c].req
         in == [business_id |-> r.business_id, staff_id |-> r.staff_id,
                customer_id |-> r.customer_id, date |-> r.date,
                time |-> ParseTime(r.selectedTime), duration |-> r.duration]
     IN /\ appts' = InsertAppt(appts, in, "online")
        /\ customers' = update_customer_stats(customers, "INSERT", "none", ApptRow(appts, in, "online"))
  /\ client' = [client EXCEPT ![c] = [@ EXCEPT !.pc = "done", !.outcome = "success"]]
  /\ matLog' = <<>>
  /\ UNCHANGED <<page, wizard, blocks, rules, slotCall, mat>>

\* if (appointmentError) throw appointmentError
ConfirmInsertError(c) ==
  /\ client[c].pc = "insert"
  /\ client' = [client EXCEPT ![c] = [@ EXCEPT !.pc = "done", !.outcome = "error"]]
  /\ matLog' = <<>>
  /\ UNCHANGED <<page, wizard, customers, blocks, appts, rules, slotCall, mat>>

\* ---------------------------------------------------------- specifications
Init ==
  /\ blocks = {}
  /\ appts = {}
  /\ rules = {}
  /\ client = [c \in Clients |-> IdleClient]
  /\ slotCall = NoSlotCall
  /\ mat = [p \in MatProcs |-> IdleMat]
  /\ matLog = <<>>
  /\ customers = [c \in Customers |-> NewCustomer]
  /\ wizard = NewWizard
  /\ page = NewPage

\* slot generator: blocks and appointments are entered, slots are asked for
NextSlots ==
  \/ \E in \in BlockInputs : NewAvailabilitySubmit(in)
  \/ \E in \in SlotAppointmentInputs : NewAppointmentSubmit(in)
  \/ \E a \in appts, s \in Statuses : UpdateAppointmentStatus(a, s)
  \/ \E q \in SlotQueries : CallFreeSlots(q)

SpecSlots == Init /\ [][NextSlots]_vars

\* booking: both booking surfaces and the status dropdown
NextBook ==
  \/ \E in \in BookBlockInputs : NewAvailabilitySubmit(in)
  \/ \E in \in BookAppointmentInputs : NewAppointmentSubmit(in)
  \/ \E a \in appts, s \in Statuses : UpdateAppointmentStatus(a, s)
  \/ \E c \in Clients, q \in BookQueries : SelectSlot(c, q)
  \/ \E c \in Clients : ConfirmCheck(c)
  \/ \E c \in Clients : ConfirmCheckError(c)
  \/ \E c \in Clients : ConfirmInsert(c)
  \/ \E c \in Clients : ConfirmInsertError(c)

SpecBook == Init /\ [][NextBook]_vars

\* ------------------------------------------------------------ materializer
\* weekdays the schedule page is exercised on (1 = Monday, 2 = Tuesday)
ModelWeekdays == <<1, 2>>

\* the staff member whose weekly schedule is edited
ScheduleStaff == {"s1"}
ScheduleBusinesses == {"b1"}

\* break_start_time and break_end_time are nullable columns: a time that is
\* not set is NullTime, and break is the pair <<break_start_time, break_end_time>>
NullTime == -1
NoBreak == <<NullTime, NullTime>>

\* IF v_schedule.break_start_time IS NOT NULL AND v_schedule.break_end_time IS NOT NULL
HasBreak(r) == r.break[1] # NullTime /\ r.break[2] # NullTime

\* one weekday's entry of the schedule form
RuleForms ==
  { [work_start_time |-> 540,  work_end_time |-> 1020, break |-> NoBreak,      is_active |-> FALSE],
    [work_start_time |-> 540,  work_end_time |-> 1020, break |-> NoBreak,      is_active |-> TRUE],
    [work_start_time |-> 540,  work_end_time |-> 1020, break |-> <<720, 780>>, is_active |-> TRUE],
    [work_start_time |-> 1020, work_end_time |-> 540,  break |-> NoBreak,      is_active |-> TRUE] }

\* date ranges a caller passes: one day, two days, a week and a day, reversed
DateRanges == { <<1, 1>>, <<1, 2>>, <<1, 8>>, <<2, 1>> }

\* a table that carries valid_work_hours only
ValidWorkHours(f) == f.work_end_time > f.work_start_time

\* CONSTRAINT valid_work_hours and CONSTRAINT valid_break_hours
ValidRule(f) ==
  /\ f.work_end_time > f.work_start_time
  /\ \/ f.break[1] = NullTime /\ f.break[2] = NullTime
     \/ /\ f.break[1] # NullTime /\ f.break[2] # NullTime
        /\ f.break[2] > f.break[1]
        /\ f.break[1] >= f.work_start_time
        /\ f.break[2] <= f.work_end_time

RuleRow(rs, biz, st, wd) ==
  { r \in rs : r.business_id = biz /\ r.staff_id = st /\ r.weekday = wd }

\* one pass of the loop of saveSchedules: update the row that has an id,
\* insert an active entry that has none; a rejected write stops the loop
RECURSIVE SaveRun(_, _, _, _, _)
SaveRun(rs, biz, st, form, i) ==
  IF i > Len(ModelWeekdays) THEN rs
  ELSE LET wd  == ModelWeekdays[i]
           f   == form[i]
           old == RuleRow(rs, biz, st, wd)
           new == [business_id |-> biz, staff_id |-> st, weekday |-> wd,
                   work_start_time |-> f.work_start_time,
                   work_end_time |-> f.work_end_time,
                   break |-> f.break, is_active |-> f.is_active]
       IN IF old # {}
            THEN IF ValidRule(f) THEN SaveRun((rs \ old) \cup {new}, biz, st, form, i + 1)
                                 ELSE rs
            ELSE IF f.is_active
                   THEN IF ValidRule(f) THEN SaveRun(rs \cup {new}, biz, st, form, i + 1)
                                        ELSE rs
                   ELSE SaveRun(rs, biz, st, form, i + 1)

saveSchedules(biz, st, form) ==
  /\ rules' = SaveRun(rules, biz, st, form, 1)
  /\ matLog' = <<>>
  /\ slotCall' = NoSlotCall
  /\ UNCHANGED <<page, wizard, customers, blocks, appts, client, mat>>

\* a day-of-week extraction that counts from Monday (ISO) instead of Sunday
DOWFromMonday(d) == (d + 6) % 7

\* EXTRACT(DOW FROM date): day 0 is a Sunday
DOW(d) == d % 7

ActiveRules(rs, biz) == { r \in rs : r.business_id = biz /\ r.is_active }

\* the rows of the FOR loop's SELECT, which states no ORDER BY
RuleOrders(S) ==
  { o \in [1..Cardinality(S) -> S] : \A i, j \in 1..Cardinality(S) : i # j => o[i] # o[j] }

\* a materializer that ignores the break: one block for the whole work period
RuleBlocksWholeDay(r, d) ==
  IF DOW(d) # r.weekday THEN <<>>
  ELSE << <<r.business_id, r.staff_id, d, r.work_start_time, r.work_end_time>> >>

\* the candidate block keys of one rule on one date
RuleBlocks(r, d) ==
  IF DOW(d) # r.weekday THEN <<>>
  ELSE IF HasBreak(r)
    THEN << <<r.business_id, r.staff_id, d, r.work_start_time, r.break[1]>>,
            <<r.business_id, r.staff_id, d, r.break[2], r.work_end_time>> >>
    ELSE << <<r.business_id, r.staff_id, d, r.work_start_time, r.work_end_time>> >>

RECURSIVE RuleDates(_, _, _)
RuleDates(r, d, to) ==
  IF d > to THEN <<>> ELSE RuleBlocks(r, d) \o RuleDates(r, d + 1, to)

\* the candidate keys in the order the nested loops meet them
RECURSIVE Candidates(_, _, _, _)
Candidates(ord, i, from, to) ==
  IF i > Len(ord) THEN <<>>
  ELSE RuleDates(ord[i], from, to) \o Candidates(ord, i + 1, from, to)

\* a blind insert: the existence test that never finds a row
BlindInsert(bs, pend, k) == FALSE

\* IF NOT EXISTS (SELECT 1 FROM availability_blocks WHERE ...): the rows the
\* statement sees are the committed ones and the call's own inserts
BlockExists(bs, pend, k) ==
  \/ \E b \in bs : /\ b.business_id = k[1] /\ SqlEq(b.staff_id, k[2])
                   /\ b.date = k[3] /\ b.start_time = k[4] /\ b.end_time = k[5]
  \/ k \in pend

NewSync == [pending |-> {}, created |-> 0, skipped |-> 0]

\* a step that counts every candidate as created, inserted or not
SyncStepCountsAll(bs, s, k) ==
  IF (\E b \in bs : BlockKey(b) = k) \/ k \in s.pending
    THEN [s EXCEPT !.created = @ + 1]
    ELSE [s EXCEPT !.pending = @ \cup {k}, !.created = @ + 1]

\* one candidate: insert it and count it created, or count it skipped
SyncStep(bs, s, k) ==
  IF BlockExists(bs, s.pending, k)
    THEN [s EXCEPT !.skipped = @ + 1]
    ELSE [s EXCEPT !.pending = @ \cup {k}, !.created = @ + 1]

RECURSIVE SyncRun(_, _, _, _)
SyncRun(bs, s, cands, i) ==
  IF i > Len(cands) THEN s ELSE SyncRun(bs, SyncStep(bs, s, cands[i]), cands, i + 1)

\* the call's inserts become rows; max_clients takes the column default 1
RECURSIVE CommitBlocks(_, _)
CommitBlocks(bs, pend) ==
  IF pend = {} THEN bs
  ELSE LET k == CHOOSE x \in pend : TRUE
       IN CommitBlocks(InsertBlock(bs, k, 1), pend \ {k})

\* what a call reports; status is "ok", "invalid_range" or "unauthorized"
MatEntry(biz, caller, from, to, status, created, skipped) ==
  [business_id |-> biz, caller |-> caller, from |-> from, to |-> to,
   status |-> status, blocks_created |-> created, blocks_skipped |-> skipped]

\* a range validation that also rejects the single-day range
SyncErrorStrict(biz, caller, from, to) ==
  IF to <= from THEN "invalid_range"
  ELSE IF OwnerOf(biz) # caller THEN "unauthorized"
  ELSE "none"

\* a validation that omits the ownership test
SyncErrorNoOwner(biz, caller, from, to) ==
  IF to < from THEN "invalid_range" ELSE "none"

\* the validations that raise before any row is read
SyncError(biz, caller, from, to) ==
  IF to < from THEN "invalid_range"
  ELSE IF OwnerOf(biz) # caller THEN "unauthorized"
  ELSE "none"

\* the calls made since the last other operation, the last two of them kept
LogCall(e) == IF matLog = <<>> THEN <<e>> ELSE <<matLog[Len(matLog)], e>>

\* one call of the function, run alone: a single transaction
sync_barber_schedules_to_availability(biz, caller, from, to) ==
  /\ IF SyncError(biz, caller, from, to) # "none"
       THEN /\ blocks' = blocks
            /\ matLog' = LogCall(MatEntry(biz, caller, from, to,
                                          SyncError(biz, caller, from, to), 0, 0))
       ELSE \E ord \in RuleOrders(ActiveRules(rules, biz)) :
              \E s \in {SyncRun(blocks, NewSync, Candidates(ord, 1, from, to), 1)} :
                /\ Cardinality(blocks) + s.created <= MaxMatBlocks
                /\ blocks' = CommitBlocks(blocks, s.pending)
                /\ matLog' = LogCall(MatEntry(biz, caller, from, to, "ok",
                                              s.created, s.skipped))
  /\ slotCall' = NoSlotCall
  /\ UNCHANGED <<page, wizard, customers, appts, rules, client, mat>>

\* ---- two calls in flight: each statement of a call sees the rows committed
\* ---- before it and the call's own inserts (READ COMMITTED)
Running == { p \in MatProcs : mat[p].pc = "run" }

RECURSIVE SumLen(_)
SumLen(S) ==
  IF S = {} THEN 0
  ELSE LET p == CHOOSE x \in S : TRUE IN Len(mat[p].cands) + SumLen(S \ {p})

syncBegin(p, biz, caller, from, to) ==
  /\ mat[p].pc \in {"idle", "done"}
  /\ IF SyncError(biz, caller, from, to) # "none"
       THEN mat' = [mat EXCEPT ![p] =
                      [pc |-> "done", business_id |-> biz, from |-> from, to |-> to,
                       status |-> SyncError(biz, caller, from, to),
                       cands |-> <<>>, next |-> 1, sync |-> NewSync, before |-> blocks]]
       ELSE \E ord \in RuleOrders(ActiveRules(rules, biz)) :
              \E cs \in {Candidates(ord, 1, from, to)} :
                /\ Cardinality(blocks) + SumLen(Running) + Len(cs) <= MaxMatBlocks
                /\ mat' = [mat EXCEPT ![p] =
                             [pc |-> "run", business_id |-> biz, from |-> from, to |-> to,
                              status |-> "none",
                              cands |-> cs, next |-> 1, sync |-> NewSync, before |-> blocks]]
  /\ matLog' = <<>>
  /\ slotCall' = NoSlotCall
  /\ UNCHANGED <<page, wizard, customers, blocks, appts, rules, client>>

syncCandidate(p) ==
  /\ mat[p].pc = "run"
  /\ mat[p].next <= Len(mat[p].cands)
  /\ mat' = [mat EXCEPT ![p].sync = SyncStep(blocks, @, mat[p].cands[mat[p].next]),
                        ![p].next = @ + 1]
  /\ UNCHANGED <<page, wizard, customers, blocks, appts, rules, client, slotCall, matLog>>

syncReturn(p) ==
  /\ mat[p].pc = "run"
  /\ mat[p].next > Len(mat[p].cands)
  /\ blocks' = CommitBlocks(blocks, mat[p].sync.pending)
  /\ mat' = [mat EXCEPT ![p].pc = "done", ![p].status = "ok"]
  /\ UNCHANGED <<page, wizard, customers, appts, rules, client, slotCall, matLog>>

\* manual blocks entered next to materialized ones
MatBlockInputs ==
  { in \in BlockInputs : in.business_id = "b1" /\ in.staff_id = "s1" /\ in.start_time = 540 }

ScheduleForms == [1..Len(ModelWeekdays) -> RuleForms]

NextMat ==
  \/ \E biz \in ScheduleBusinesses, st \in ScheduleStaff, form \in ScheduleForms :
       saveSchedules(biz, st, form)
  \/ \E in \in MatBlockInputs : NewAvailabilitySubmit(in)
  \/ \E biz \in ScheduleBusinesses, caller \in Owners, r \in DateRanges :
       sync_barber_schedules_to_availability(biz, caller, r[1], r[2])

SpecMat == Init /\ [][NextMat]_vars

\* the ranges two calls in flight are given: overlapping, and one reversed
ConcRanges == { r \in DateRanges : r[2] <= 2 }

\* the schedule beneath two calls in flight: Monday's entry is edited
ConcForms == { form \in ScheduleForms : ~form[2].is_active }

NextMatConc ==
  \/ \E biz \in ScheduleBusinesses, st \in ScheduleStaff, form \in ConcForms :
       saveSchedules(biz, st, form)
  \/ \E p \in MatProcs, biz \in ScheduleBusinesses, caller \in Owners, r \in ConcRanges :
       syncBegin(p, biz, caller, r[1], r[2])
  \/ \E p \in MatProcs : syncCandidate(p)
  \/ \E p \in MatProcs : syncReturn(p)

SpecMatConc == Init /\ [][NextMatConc]_vars

\* ------------------------------------------------------------------ claims
\* capacity as the data model states it: max(1, block.capacity)
Capacity(b) == IF b.max_clients < 1 THEN 1 ELSE b.max_clients

\* the scheduled bookings of (business, staff, date) whose [time, time+duration)
\* contains instant t
BookedAt(biz, st, d, t) ==
  { a \in appts : /\ a.business_id = biz /\ a.staff_id = st /\ a.date = d
                  /\ a.status = "scheduled"
                  /\ a.time <= t /\ t < a.time + a.duration }

\* the blocks that govern instant t for (business, staff, date)
GoverningAt(biz, st, d, t) ==
  { b \in blocks : /\ b.business_id = biz /\ (b.staff_id = st \/ b.staff_id = NoStaff)
                   /\ b.date = d
                   /\ b.start_time <= t /\ t < b.end_time }

\* C1: in every reachable state, for every (business, staff, date) and every
\* instant of that date that a block governs, the number of scheduled bookings
\* whose [time, time+duration) contains the instant is at most the capacity of
\* a block governing the instant.
C1_CapacityNeverExceeded ==
  \A biz \in Businesses, st \in Staff, d \in BookingDates, t \in 0..(MinutesPerDay - 1) :
    GoverningAt(biz, st, d, t) # {} =>
      \E b \in GoverningAt(biz, st, d, t) : Cardinality(BookedAt(biz, st, d, t)) <= Capacity(b)

\* two wizard sessions ask for the same (business, staff, date, time)
SameSlot(r1, r2) ==
  /\ r1.business_id = r2.business_id /\ r1.staff_id = r2.staff_id
  /\ r1.date = r2.date /\ r1.selectedTime = r2.selectedTime

\* every block governing the requested start time has capacity 1
OnCapacityOneBlock(r) ==
  LET g == GoverningAt(r.business_id, r.staff_id, r.date, ParseTime(r.selectedTime))
  IN g # {} /\ \A b \in g : b.max_clients = 1

\* C2: two concurrent handleConfirm calls (c ran its conflict query while d was
\* between its query and its insert) for the identical (business, staff, date,
\* time) on a capacity-1 block, neither failing for another reason, end with
\* one success and one conflict.
C2_RaceOneWinner ==
  \A c, d \in Clients :
    ( /\ c # d
      /\ client[c].pc = "done" /\ client[d].pc = "done"
      /\ d \in client[c].during
      /\ SameSlot(client[c].req, client[d].req)
      /\ OnCapacityOneBlock(client[c].req)
      /\ client[c].outcome # "error" /\ client[d].outcome # "error" )
    => {client[c].outcome, client[d].outcome} = {"success", "conflict"}

\* the overlap test of the slot generator in plain minutes, for request r:
\* the scheduled bookings of the same (business, staff, date) with
\* time < bookingStart + bookingDuration and time + duration > bookingStart
RequestOverlaps(as, r, t) ==
  { a \in as : /\ a.business_id = r.business_id /\ a.staff_id = r.staff_id
               /\ a.date = r.date /\ a.status = "scheduled"
               /\ t < a.time + a.duration /\ t + r.duration > a.time }

\* the blocks the requested interval lies in
GoverningBlocks(bs, r, t) ==
  { b \in bs : /\ b.business_id = r.business_id
               /\ (b.staff_id = r.staff_id \/ b.staff_id = NoStaff)
               /\ b.date = r.date
               /\ b.start_time <= t /\ t + r.duration <= b.end_time }

\* the requested interval is governed and every governing block is full
SlotFull(bs, as, r, t) ==
  /\ GoverningBlocks(bs, r, t) # {}
  /\ \A b \in GoverningBlocks(bs, r, t) : Cardinality(RequestOverlaps(as, r, t)) >= Capacity(b)

\* C3: when handleConfirm's conflict query answers, for a request some block
\* governs, it rejects with the conflict error exactly when the scheduled
\* bookings overlapping the requested interval fill the governing capacity.
C3_RejectsIffFull ==
  [][ \A c \in Clients :
        ( /\ client[c].pc = "confirm" /\ client'[c].pc # "confirm"
          /\ client'[c].outcome # "error"
          /\ GoverningBlocks(blocks, client[c].req, ParseTime(client[c].req.selectedTime)) # {} )
        => ( client'[c].outcome = "conflict"
               <=> SlotFull(blocks, appts, client[c].req, ParseTime(client[c].req.selectedTime)) )
    ]_vars

\* C4: the internal surface inserts no booking whose interval overlaps
\* scheduled bookings at full block capacity.
C4_InternalRejectsFull ==
  [][ \A a \in appts' :
        ( /\ a.id \notin { x.id : x \in appts }
          /\ a.source = "internal" )
        => ~SlotFull(blocks, appts, a, a.time)
    ]_vars

\* the candidate starts of block b for a service of dur minutes, in plain
\* minutes of the day: s = b.start_time + 15k with s + dur <= b.end_time
CandidateStarts(b, dur) ==
  { s \in 0..(MinutesPerDay - 1) : /\ s >= b.start_time
                                   /\ (s - b.start_time) % SlotStep = 0
                                   /\ s + dur <= b.end_time }

\* what the walk of block b yields for the query of the last call
WalkOfCall(b) == SlotsOfBlock(appts, b, slotCall.q)

\* C5: for every candidate slot [s, s+serviceDuration) of a block,
\* generate_free_time_slots returns s iff overlapCount < effectiveCapacity,
\* overlapCount being the scheduled bookings of the same (business, staff,
\* date) with s < bookingStart+bookingDuration and s+serviceDuration >
\* bookingStart.
C5_ReturnedIffUnderCapacity ==
  (slotCall.status = "called" /\ slotCall.result.status = "ok") =>
    /\ Offered(slotCall.result) =
         UNION { SeqRange(WalkOfCall(b).free) : b \in MatchingBlocks(blocks, slotCall.q) }
    /\ \A b \in MatchingBlocks(blocks, slotCall.q) :
         \A s \in CandidateStarts(b, slotCall.q.duration) :
           ToChar(s) \in SeqRange(WalkOfCall(b).free)
             <=> Cardinality(RequestOverlaps(appts, slotCall.q, s)) < Capacity(b)

\* C6: for every block b with start_time < end_time and every service
\* duration, the start times generate_free_time_slots considers for b are
\* exactly s = b.start_time + 15k with s + serviceDuration <= b.end_time, the
\* sum taken as minutes of the same day.
C6_ConsideredAreCandidates ==
  (slotCall.status = "called" /\ slotCall.result.status = "ok") =>
    \A b \in MatchingBlocks(blocks, slotCall.q) :
      b.start_time < b.end_time =>
        WalkOfCall(b).considered = CandidateStarts(b, slotCall.q.duration)

\* two log entries are calls with the same arguments by the same caller
SameCall(e1, e2) ==
  /\ e1.business_id = e2.business_id /\ e1.caller = e2.caller
  /\ e1.from = e2.from /\ e1.to = e2.to

\* C7: a call of sync_barber_schedules_to_availability that directly follows a
\* completed call for the same business and date range, no other operation in
\* between, returns blocks_created = 0 and leaves the block set as the first
\* call left it.
C7_SecondRunCreatesNothing ==
  [][ ( /\ Len(matLog') = 2
        /\ SameCall(matLog'[1], matLog'[2])
        /\ matLog'[1].status = "ok" )
      => ( /\ matLog'[2].status = "ok"
           /\ matLog'[2].blocks_created = 0
           /\ blocks' = blocks )
    ]_vars

\* a second run has followed a first run that created blocks
C7_Witness ==
  /\ Len(matLog) = 2
  /\ SameCall(matLog[1], matLog[2])
  /\ matLog[1].status = "ok" /\ matLog[1].blocks_created > 0
  /\ matLog[2].status = "ok" /\ matLog[2].blocks_created = 0
  /\ matLog[2].blocks_skipped > 0

\* the candidate keys of a finished call that no row of bs carried
MissingKeys(bs, cands) == { k \in SeqRange(cands) : ~BlockExists(bs, {}, k) }

\* C8: two calls for the same business over overlapping date ranges that both
\* started from the same block set and both returned insert no candidate key
\* twice, and their created counts add up to the number of distinct candidate
\* keys that were missing beforehand.
C8_InterleavedAsSequential ==
  \A p, q \in MatProcs :
    ( /\ p # q
      /\ mat[p].pc = "done" /\ mat[q].pc = "done"
      /\ mat[p].status = "ok" /\ mat[q].status = "ok"
      /\ mat[p].business_id = mat[q].business_id
      /\ mat[p].from <= mat[q].to /\ mat[q].from <= mat[p].to
      /\ mat[p].before = mat[q].before )
    => ( /\ mat[p].sync.pending \cap mat[q].sync.pending = {}
         /\ mat[p].sync.created + mat[q].sync.created =
              Cardinality(MissingKeys(mat[p].before, mat[p].cands \o mat[q].cands)) )

\* C9: no two availability blocks share (business, staff, date, start_time,
\* end_time), whatever calls of the materializer and manual insertions came
\* before.
C9_BlockKeysUnique ==
  \A b1, b2 \in blocks : BlockKey(b1) = BlockKey(b2) => b1 = b2

\* C10: every block that exists before a call of
\* sync_barber_schedules_to_availability, returning or raising, exists after
\* it with the same business, staff, date, start_time, end_time and capacity.
C10_OnlyAddsBlocks ==
  [][ matLog' # <<>> => \A b \in blocks : b \in blocks' ]_vars

\* a call has created blocks next to a block of a rule since edited (its break
\* removed) and a manual block of capacity 2
C10_Witness ==
  /\ matLog # <<>>
  /\ matLog[Len(matLog)].status = "ok"
  /\ matLog[Len(matLog)].blocks_created > 0
  /\ \E b \in blocks : b.start_time = 540 /\ b.end_time = 720
  /\ \A r \in rules : r.break = NoBreak
  /\ \E b \in blocks : b.max_clients = 2

\* the candidate blocks the design asks of one rule on one matching date:
\* [work_start, break_start) and [break_end, work_end) with a break,
\* [work_start, work_end) without
RuleWindows(r, d) ==
  IF r.break # NoBreak
    THEN { <<r.business_id, r.staff_id, d, r.work_start_time, r.break[1]>>,
           <<r.business_id, r.staff_id, d, r.break[2], r.work_end_time>> }
    ELSE { <<r.business_id, r.staff_id, d, r.work_start_time, r.work_end_time>> }

\* the (rule, date) pairs of a call: the active rules of the business and the
\* dates of [from, to] whose day of week is the rule's weekday
MatchingPairs(rs, biz, from, to) ==
  { pr \in { x \in rs : x.business_id = biz /\ x.is_active } \X (from..to) :
      pr[2] % 7 = pr[1].weekday }

ExpectedKeys(rs, biz, from, to) ==
  UNION { RuleWindows(pr[1], pr[2]) : pr \in MatchingPairs(rs, biz, from, to) }

KeysOf(bs) == { BlockKey(b) : b \in bs }

\* the log entry of the call a step has just made
LastCall(log) == log[Len(log)]

\* C11: a returning call of sync_barber_schedules_to_availability leaves, for
\* each active rule and matching date, exactly the blocks [work_start,
\* break_start) and [break_end, work_end) when the rule has a break and
\* [work_start, work_end) when it has none: the rows it adds carry exactly the
\* expected keys that no row carried before, one row each.
C11_EmitsRuleWindows ==
  [][ (matLog' # <<>> /\ LastCall(matLog').status = "ok")
      => ( /\ KeysOf(blocks' \ blocks) =
                ExpectedKeys(rules, LastCall(matLog').business_id,
                             LastCall(matLog').from, LastCall(matLog').to) \ KeysOf(blocks)
           /\ blocks \subseteq blocks'
           /\ Cardinality(blocks' \ blocks) = Cardinality(KeysOf(blocks' \ blocks)) )
    ]_vars

\* a rule 09:00-17:00 with break 12:00-13:00 over a range with two Mondays and
\* no prior blocks has produced exactly 4 blocks
C11_Witness ==
  /\ matLog # <<>>
  /\ LastCall(matLog).status = "ok"
  /\ LastCall(matLog).blocks_created = 4
  /\ KeysOf(blocks) = { <<"b1", "s1", 1, 540, 720>>, <<"b1", "s1", 1, 780, 1020>>,
                        <<"b1", "s1", 8, 540, 720>>, <<"b1", "s1", 8, 780, 1020>> }
  /\ Cardinality(blocks) = 4

\* ---- the schedules of two businesses side by side: each weekday's entry is
\* ---- the default (inactive) one or the plain working day
BizForms ==
  { form \in ScheduleForms : \A i \in 1..Len(ModelWeekdays) : ValidRule(form[i]) /\ form[i].break = NoBreak }

\* two days, a week and a day, and a reversed range
BizRanges == { r \in DateRanges : r # <<1, 1>> }

NextMatBiz ==
  \/ \E biz \in Businesses, st \in ScheduleStaff, form \in BizForms :
       saveSchedules(biz, st, form)
  \/ \E biz \in Businesses, caller \in Owners, r \in BizRanges :
       sync_barber_schedules_to_availability(biz, caller, r[1], r[2])

SpecMatBiz == Init /\ [][NextMatBiz]_vars

\* C12: a returning call sync_barber_schedules_to_availability(business, a, b)
\* produces blocks for exactly the pairs (rule, date) where rule is an active
\* rule of that business and date lies in [a, b], endpoints included, with
\* day of week (0 = Sunday) equal to rule.weekday: every row it adds belongs
\* to such a pair, and every such pair has its block afterwards.
C12_BlocksForMatchingPairs ==
  [][ (matLog' # <<>> /\ LastCall(matLog').status = "ok")
      => LET e == LastCall(matLog')
             pairs == MatchingPairs(rules, e.business_id, e.from, e.to)
         IN /\ \A b \in blocks' \ blocks :
                 \E pr \in pairs : /\ b.business_id = e.business_id
                                   /\ b.staff_id = pr[1].staff_id
                                   /\ b.date = pr[2]
            /\ \A pr \in pairs :
                 \E b \in blocks' : /\ b.business_id = e.business_id
                                    /\ b.staff_id = pr[1].staff_id
                                    /\ b.date = pr[2]
                                    /\ b.start_time = pr[1].work_start_time
    ]_vars

\* a call for b1 over days 1..2 has created Monday's block while b1's Tuesday
\* rule is inactive, b2 has an active rule, and Monday of the next week lies
\* outside the range
C12_Witness ==
  /\ matLog # <<>>
  /\ LastCall(matLog).status = "ok"
  /\ LastCall(matLog).business_id = "b1"
  /\ LastCall(matLog).from = 1 /\ LastCall(matLog).to = 2
  /\ LastCall(matLog).blocks_created = 1
  /\ \E r \in rules : r.business_id = "b1" /\ r.weekday = 2 /\ ~r.is_active
  /\ \E r \in rules : r.business_id = "b2" /\ r.is_active
  /\ KeysOf(blocks) = { <<"b1", "s1", 1, 540, 1020>> }

\* the candidate blocks of a call, one per (matching pair, window)
CandidateBlocks(rs, biz, from, to) ==
  UNION { { <<pr, k>> : k \in RuleWindows(pr[1], pr[2]) } :
            pr \in MatchingPairs(rs, biz, from, to) }

\* C13: on return of sync_barber_schedules_to_availability, blocks_created +
\* blocks_skipped is the number of candidate blocks (two per matching pair
\* with a break, one otherwise), blocks_created is the number of rows the call
\* inserted, and blocks_skipped is the number of candidates whose key a row
\* already carried.
C13_CountsAddUp ==
  [][ (matLog' # <<>> /\ LastCall(matLog').status = "ok")
      => LET e == LastCall(matLog')
             cands == CandidateBlocks(rules, e.business_id, e.from, e.to)
         IN /\ e.blocks_created + e.blocks_skipped = Cardinality(cands)
            /\ e.blocks_created = Cardinality(blocks' \ blocks)
            /\ e.blocks_skipped = Cardinality({ c \in cands : c[2] \in KeysOf(blocks) })
    ]_vars

\* a call has returned with candidates of a rule with a break, some created
\* and some skipped
C13_Witness ==
  /\ matLog # <<>>
  /\ LastCall(matLog).status = "ok"
  /\ LastCall(matLog).blocks_created = 2
  /\ LastCall(matLog).blocks_skipped = 2
  /\ \E r \in rules : r.is_active /\ r.break # NoBreak

\* ---- windows at the edge of what the tables accept: a break that starts
\* ---- with the work period or ends with it (valid_break_hours allows both),
\* ---- and manual blocks whose end is not after their start (no constraint)
EdgeRuleForms ==
  { [work_start_time |-> 540, work_end_time |-> 1020, break |-> NoBreak,       is_active |-> FALSE],
    [work_start_time |-> 540, work_end_time |-> 1020, break |-> <<540, 600>>,  is_active |-> TRUE],
    [work_start_time |-> 540, work_end_time |-> 1020, break |-> <<960, 1020>>, is_active |-> TRUE] }

EdgeForms ==
  { form \in [1..Len(ModelWeekdays) -> EdgeRuleForms] : ~form[2].is_active }

EdgeBlockInputs ==
  { [business_id |-> "b1", staff_id |-> "s1", date |-> 1, start_time |-> 1020, end_time |-> 540, max_clients |-> 1],
    [business_id |-> "b1", staff_id |-> "s1", date |-> 1, start_time |-> 600,  end_time |-> 600, max_clients |-> 1],
    [business_id |-> "b1", staff_id |-> "s1", date |-> 1, start_time |-> 540,  end_time |-> 600, max_clients |-> 1] }

NextWindows ==
  \/ \E biz \in ScheduleBusinesses, st \in ScheduleStaff, form \in EdgeForms :
       saveSchedules(biz, st, form)
  \/ \E in \in EdgeBlockInputs : NewAvailabilitySubmit(in)
  \/ \E biz \in ScheduleBusinesses, caller \in Owners, r \in DateRanges :
       sync_barber_schedules_to_availability(biz, caller, r[1], r[2])

SpecWindows == Init /\ [][NextWindows]_vars

\* C14: every availability block in every reachable state has end_time >
\* start_time, whether sync_barber_schedules_to_availability created it from a
\* rule the schedule table accepts or NewAvailabilityModal.handleSubmit
\* inserted it.
C14_BlockEndsAfterStart ==
  \A b \in blocks : b.end_time > b.start_time

\* C15: sync_barber_schedules_to_availability called with p_end_date <
\* p_start_date raises the invalid-range error, returns no counts and leaves
\* the block set unchanged; called by the owner with p_end_date = p_start_date
\* it returns and has processed that single date.
C15_InvalidRangeRejected ==
  [][ matLog' # <<>>
      => LET e == LastCall(matLog')
         IN /\ e.to < e.from
                 => (e.status = "invalid_range" /\ blocks' = blocks)
            /\ (e.to = e.from /\ e.caller = OwnerOf(e.business_id))
                 => ( /\ e.status = "ok"
                      /\ ExpectedKeys(rules, e.business_id, e.from, e.from) \subseteq KeysOf(blocks')
                      /\ e.blocks_created + e.blocks_skipped =
                           Cardinality(ExpectedKeys(rules, e.business_id, e.from, e.from)) )
    ]_vars

\* a single-day call has created a block and the reversed range was then
\* rejected with the blocks in place
C15_Witness ==
  /\ Len(matLog) = 2
  /\ matLog[1].from = matLog[1].to
  /\ matLog[1].status = "ok" /\ matLog[1].blocks_created > 0
  /\ matLog[2].to < matLog[2].from
  /\ matLog[2].status = "invalid_range"
  /\ blocks # {}

\* C16 as stated: every call of sync_barber_schedules_to_availability by a
\* principal who does not own the target business raises the unauthorized
\* error and leaves the blocks of every business as they were.
C16_UnauthorizedAlways ==
  [][ (matLog' # <<>> /\ LastCall(matLog').caller # OwnerOf(LastCall(matLog').business_id))
      => (LastCall(matLog').status = "unauthorized" /\ blocks' = blocks)
    ]_vars

\* C16: a call of sync_barber_schedules_to_availability by a principal who
\* does not own the target business raises an error and leaves the blocks of
\* every business as they were; the error is the unauthorized one when
\* p_end_date >= p_start_date and the invalid-range one otherwise, the range
\* being validated first.
C16_UnauthorizedRejected ==
  [][ (matLog' # <<>> /\ LastCall(matLog').caller # OwnerOf(LastCall(matLog').business_id))
      => LET e == LastCall(matLog')
         IN /\ blocks' = blocks
            /\ e.to >= e.from => e.status = "unauthorized"
            /\ e.to < e.from => e.status = "invalid_range"
    ]_vars

\* the owner of b2 has called for b1, whose active rule has no block yet, and
\* was refused; b2's own block is in place
C16_Witness ==
  /\ matLog # <<>>
  /\ LastCall(matLog).business_id = "b1"
  /\ LastCall(matLog).caller = "o2"
  /\ LastCall(matLog).status = "unauthorized"
  /\ \E r \in rules : r.business_id = "b1" /\ r.is_active
  /\ \E b \in blocks : b.business_id = "b2"
  /\ \A b \in blocks : b.business_id # "b1"

\* ------------------------------------------------------------------- C17
\* a step of the handleConfirm call of client c
ConfirmStep(c) == client[c].pc \in {"confirm", "insert"} /\ client'[c].pc # client[c].pc

\* the row carries what the client asked for
CarriesRequest(a, r) ==
  /\ a.business_id = r.business_id
  /\ a.staff_id = r.staff_id
  /\ a.customer_id = r.customer_id
  /\ a.date = r.date
  /\ a.time = ParseTime(r.selectedTime)
  /\ a.duration = r.duration
  /\ a.status = "scheduled"

\* C17: a handleConfirm call ends in exactly one of two outcomes. On success
\* exactly one scheduled booking is added, carrying the requested business,
\* staff, date, time, duration and customer (the duration is the one of the
\* requested service), and no other booking changes. On an error (conflict,
\* failed availability check, failed insert) no booking is added and all
\* bookings are unchanged. The call never retries: it goes from the check to
\* the insert at most once, and every step before its end leaves the bookings
\* alone.
C17_ConfirmOneOutcome ==
  [][ \A c \in Clients : ConfirmStep(c) =>
        IF client'[c].pc = "done"
        THEN /\ client'[c].outcome \in {"success", "conflict", "error"}
             /\ client'[c].outcome = "success" =>
                  /\ Cardinality(appts') = Cardinality(appts) + 1
                  /\ \E a \in appts' \ appts :
                       /\ appts' = appts \cup {a}
                       /\ CarriesRequest(a, client[c].req)
             /\ client'[c].outcome # "success" => appts' = appts
        ELSE /\ client[c].pc = "confirm"
             /\ client'[c].pc = "insert"
             /\ appts' = appts ]_vars

\* one call has succeeded and its booking is stored, another has ended in a
\* conflict and stored nothing
C17_Witness ==
  \E c, d \in Clients :
    /\ client[c].pc = "done" /\ client[c].outcome = "success"
    /\ client[d].pc = "done" /\ client[d].outcome = "conflict"
    /\ Cardinality({ a \in appts : a.source = "online" }) = 1
    /\ \E a \in appts : a.source = "online" /\ CarriesRequest(a, client[c].req)

\* ------------------------------------------------------------------- C18
\* C18: the list a generate_free_time_slots call returns is in non-decreasing
\* order of start time, whatever the candidate blocks are (overlapping blocks
\* included).
C18_SlotsInOrder ==
  (slotCall.status = "called" /\ slotCall.result.status = "ok") =>
    \A i, j \in 1..Len(slotCall.result.free_slots) :
      i < j => ParseTime(slotCall.result.free_slots[i]) <= ParseTime(slotCall.result.free_slots[j])

\* ------------------------------------------------------------------- C19
\* the blocks of business biz on date d whose staff is s or null
UsableBlocks(bs, biz, s, d) ==
  { b \in bs : b.business_id = biz /\ b.date = d /\ b.staff_id \in {s, NoStaff} }

\* C19: generate_free_time_slots for staff s of a business on a date uses
\* exactly the blocks of that business and date whose staff is s or null: the
\* answer is the slots of those blocks, each block read once; the slots of a
\* null-staff block are returned whoever the staff is, and a block of another
\* staff member or another business adds nothing.
C19_UsesOwnAndNullStaffBlocks ==
  (slotCall.status = "called" /\ slotCall.result.status = "ok") =>
    LET q == slotCall.q
        used == UsableBlocks(blocks, q.business_id, q.staff_id, q.date)
    IN /\ \E ord \in BlockOrders(used) :
            slotCall.result = generate_free_time_slots(used, appts, q, ord)
       /\ Offered(slotCall.result) = UNION { SeqRange(WalkOfCall(b).free) : b \in used }
       /\ \A b \in blocks :
            (b.staff_id = NoStaff /\ b.business_id = q.business_id /\ b.date = q.date)
              => SeqRange(WalkOfCall(b).free) \subseteq Offered(slotCall.result)

\* staff s2 is asked for while the business holds a null-staff block 10:00-11:00
\* and a block of s1: the answer is the three slots of the null-staff block
C19_Witness ==
  /\ slotCall.status = "called"
  /\ slotCall.q.staff_id = "s2"
  /\ slotCall.q.business_id = "b1"
  /\ \E b \in blocks : b.business_id = "b1" /\ b.staff_id = NoStaff
  /\ \E b \in blocks : b.business_id = "b1" /\ b.staff_id = "s1" /\ b.start_time = 540
  /\ slotCall.result.status = "ok"
  /\ slotCall.result.free_slots = << <<10, 0>>, <<10, 15>>, <<10, 30>> >>

\* ------------------------------------------------------------------- C20
\* The slot generator as a function of the tables.  availability_blocks holds
\* any row its DDL accepts: max_clients is int NOT NULL with no CHECK, so zero
\* and negative capacities are storable.
StoredCapacities == {-1, 0, 1, 2}

\* the windows of the stored rows: a morning and an afternoon of one staff member
StoredWindows == { <<"b1", "s1", 1, 540, 720>>, <<"b1", "s1", 1, 780, 1020>> }

StoredBlocks == { InsertBlock({}, k, cap) : k \in StoredWindows, cap \in StoredCapacities }

\* tables with at most one row per window
BlockTables ==
  { t \in SUBSET (UNION StoredBlocks) :
      /\ Cardinality(t) <= MaxBlocks
      /\ \A x, y \in t : BlockKey(x) = BlockKey(y) => x = y }

\* one booking in each window
StoredAppointments ==
  InsertAppt(InsertAppt({}, [business_id |-> "b1", staff_id |-> "s1", customer_id |-> "c1",
                             date |-> 1, time |-> 600, duration |-> 30], "internal"),
             [business_id |-> "b1", staff_id |-> "s1", customer_id |-> "c1",
              date |-> 1, time |-> 840, duration |-> 30], "internal")

AppointmentTables == { t \in SUBSET StoredAppointments : Cardinality(t) <= MaxAppts }

CapacityQueries == { q \in SlotQueries : q.business_id = "b1" /\ q.staff_id = "s1" }

InitCapacity ==
  /\ blocks \in BlockTables
  /\ appts \in AppointmentTables
  /\ rules = {}
  /\ client = [c \in Clients |-> IdleClient]
  /\ slotCall = NoSlotCall
  /\ mat = [p \in MatProcs |-> IdleMat]
  /\ matLog = <<>>
  /\ customers = [c \in Customers |-> NewCustomer]
  /\ wizard = NewWizard
  /\ page = NewPage

NextCapacity == \E q \in CapacityQueries : CallFreeSlots(q)

SpecCapacity == InitCapacity /\ [][NextCapacity]_vars

\* C20: generate_free_time_slots treats a block whose stored capacity is zero
\* or negative as a block of capacity 1: a fitting slot of such a block is
\* returned exactly when no scheduled booking overlaps it, so with no
\* overlapping booking every fitting slot of the block is returned.
C20_NonPositiveCapacityIsOne ==
  (slotCall.status = "called" /\ slotCall.result.status = "ok") =>
    \A b \in MatchingBlocks(blocks, slotCall.q) :
      b.max_clients < 1 =>
        \A s \in CandidateStarts(b, slotCall.q.duration) :
          ToChar(s) \in SeqRange(WalkOfCall(b).free)
            <=> Cardinality(RequestOverlaps(appts, slotCall.q, s)) < 1

\* ------------------------------------------------------------------- C21
\* C21: only scheduled bookings count toward capacity.  In the answer of a
\* generate_free_time_slots call, every fitting slot of a block that fewer
\* scheduled bookings overlap than the block has capacity is returned, however
\* many cancelled, completed or no_show bookings lie across it: a slot that a
\* booking excluded is returned by the next call once that booking's status is
\* no longer scheduled.
C21_OnlyScheduledCount ==
  (slotCall.status = "called" /\ slotCall.result.status = "ok") =>
    \A b \in MatchingBlocks(blocks, slotCall.q) :
      \A s \in CandidateStarts(b, slotCall.q.duration) :
        Cardinality(RequestOverlaps(appts, slotCall.q, s)) < b.max_clients
          => ToChar(s) \in Offered(slotCall.result)

\* the 10:00 booking of s1 has left status scheduled and is the only booking
\* across 10:00-10:30 in a block of capacity 1; the call returns 10:00
C21_Witness ==
  /\ slotCall.status = "called"
  /\ slotCall.result.status = "ok"
  /\ slotCall.q.duration = 30
  /\ \A b \in MatchingBlocks(blocks, slotCall.q) : b.max_clients = 1
  /\ \E a \in appts : /\ a.business_id = slotCall.q.business_id
                      /\ a.staff_id = slotCall.q.staff_id
                      /\ a.date = slotCall.q.date
                      /\ a.status # "scheduled" /\ a.time = 600
  /\ RequestOverlaps(appts, slotCall.q, 600) = {}
  /\ <<10, 0>> \in Offered(slotCall.result)

\* ------------------------------------------------------------------- C22
\* the bookings list of BookingsPage for two customers on two dates
StatsAppointmentInputs ==
  { [business_id |-> "b1", staff_id |-> "s1", customer_id |-> "c1", date |-> 1, time |-> 600, duration |-> 30],
    [business_id |-> "b1", staff_id |-> "s1", customer_id |-> "c1", date |-> 2, time |-> 600, duration |-> 30],
    [business_id |-> "b1", staff_id |-> "s1", customer_id |-> "c2", date |-> 2, time |-> 660, duration |-> 30] }

\* appointments are entered and their status is set from the dropdown
NextStats ==
  \/ \E in \in StatsAppointmentInputs : NewAppointmentSubmit(in)
  \/ \E a \in appts, s \in Statuses : UpdateAppointmentStatus(a, s)

SpecStats == Init /\ [][NextStats]_vars

CheckedRuleForms ==
  { [work_start_time |-> 540,  work_end_time |-> 1020, break |-> NoBreak,            is_active |-> TRUE],
    [work_start_time |-> 540,  work_end_time |-> 1020, break |-> <<720, 780>>,       is_active |-> TRUE],
    [work_start_time |-> 600,  work_end_time |-> 960,  break |-> <<600, 660>>,       is_active |-> TRUE],
    [work_start_time |-> 540,  work_end_time |-> 540,  break |-> NoBreak,            is_active |-> TRUE],
    [work_start_time |-> 1020, work_end_time |-> 540,  break |-> NoBreak,            is_active |-> TRUE],
    [work_start_time |-> 540,  work_end_time |-> 1020, break |-> <<720, NullTime>>,  is_active |-> TRUE],
    [work_start_time |-> 540,  work_end_time |-> 1020, break |-> <<NullTime, 780>>,  is_active |-> TRUE],
    [work_start_time |-> 540,  work_end_time |-> 1020, break |-> <<780, 720>>,       is_active |-> TRUE],
    [work_start_time |-> 540,  work_end_time |-> 1020, break |-> <<720, 720>>,       is_active |-> TRUE],
    [work_start_time |-> 540,  work_end_time |-> 1020, break |-> <<480, 600>>,       is_active |-> TRUE],
    [work_start_time |-> 540,  work_end_time |-> 1020, break |-> <<960, 1080>>,      is_active |-> TRUE] }

NextRules ==
  \E biz \in Businesses, st \in ScheduleStaff, form \in [1..Len(ModelWeekdays) -> CheckedRuleForms] :
    saveSchedules(biz, st, form)

SpecRules == Init /\ [][NextRules]_vars

\* the invariant of a weekly schedule rule
RuleInvariant(r) ==
  /\ r.work_end_time > r.work_start_time
  /\ (r.break[1] = NullTime) <=> (r.break[2] = NullTime)
  /\ r.break[1] # NullTime =>
       /\ r.break[2] > r.break[1]
       /\ r.work_start_time <= r.break[1]
       /\ r.break[2] <= r.work_end_time

\* C23: barber_weekly_schedules never holds a rule that violates its
\* invariant: an insert or update of saveSchedules that would leave
\* work_end <= work_start, only one of break_start/break_end set,
\* break_end <= break_start, or a break outside [work_start, work_end] is
\* rejected, and that rule is not stored.
C23_RulesKeepInvariant == \A r \in rules : RuleInvariant(r)

\* Monday's rule with a break is stored while Tuesday has no rule, every form
\* entry being active: each save so far had its Tuesday entry rejected
C23_Witness ==
  /\ \E r \in rules : r.business_id = "b1" /\ r.weekday = ModelWeekdays[1] /\ r.break = <<720, 780>>
  /\ \A r \in rules : r.business_id = "b1" => r.weekday = ModelWeekdays[1]

\* ------------------------------------------------------------------- C24
\* two businesses whose staff, dates and windows coincide
TenantBlockInputs ==
  { in \in BlockInputs : in.staff_id = "s1" /\ in.start_time = 540 /\ in.max_clients = 1 }
TenantAppointmentInputs ==
  { in \in AppointmentInputs : in.staff_id = "s1" /\ in.time = 600 }
TenantQueries == { q \in SlotQueries : q.staff_id = "s1" /\ q.duration = 30 }
\* Monday's entry is edited, Tuesday stays off
TenantForms == { form \in BizForms : ~form[2].is_active }

NextTenants ==
  \/ \E in \in TenantBlockInputs : NewAvailabilitySubmit(in)
  \/ \E in \in TenantAppointmentInputs : NewAppointmentSubmit(in)
  \/ \E biz \in Businesses, st \in ScheduleStaff, form \in TenantForms : saveSchedules(biz, st, form)
  \/ \E biz \in Businesses, r \in { <<1, 2>> } :
       sync_barber_schedules_to_availability(biz, OwnerOf(biz), r[1], r[2])
  \/ \E q \in TenantQueries : CallFreeSlots(q)

SpecTenants == Init /\ [][NextTenants]_vars

\* the rows of a table that belong to business biz
OfBusiness(rows, biz) == { x \in rows : x.business_id = biz }

\* C24: generate_free_time_slots and sync_barber_schedules_to_availability
\* for business A depend only on A's data and touch only A's data.  Whatever
\* the other businesses' rules, blocks and bookings are, a slot call answers
\* what it answers on A's blocks and bookings alone and changes no row; a
\* materializer call returns the counts and inserts the blocks it returns and
\* inserts on A's rules and blocks alone, every inserted block has business A,
\* and no row of another business changes.
C24_TenantIsolation ==
  [][ /\ slotCall'.status = "called" =>
           /\ \E ord \in BlockOrders(MatchingBlocks(OfBusiness(blocks, slotCall'.q.business_id), slotCall'.q)) :
                slotCall'.result =
                  generate_free_time_slots(OfBusiness(blocks, slotCall'.q.business_id),
                                           OfBusiness(appts, slotCall'.q.business_id),
                                           slotCall'.q, ord)
           /\ blocks' = blocks /\ appts' = appts /\ rules' = rules
      /\ (matLog' # <<>> /\ LastCall(matLog').status = "ok") =>
           LET e == LastCall(matLog')
               own == OfBusiness(blocks, e.business_id)
           IN /\ \E ord \in RuleOrders(ActiveRules(OfBusiness(rules, e.business_id), e.business_id)) :
                   \E s \in {SyncRun(own, NewSync, Candidates(ord, 1, e.from, e.to), 1)} :
                     /\ e.blocks_created = s.created
                     /\ e.blocks_skipped = s.skipped
                     /\ blocks' \ blocks = CommitBlocks(own, s.pending) \ own
              /\ \A b \in blocks' \ blocks : b.business_id = e.business_id
              /\ blocks \subseteq blocks'
              /\ appts' = appts /\ rules' = rules
    ]_vars

\* business b1 has been materialized and got its Monday block although b2
\* holds a block of the same staff, date and window, a rule and a booking
C24_Witness ==
  /\ matLog # <<>>
  /\ LastCall(matLog).status = "ok"
  /\ LastCall(matLog).business_id = "b1"
  /\ LastCall(matLog).blocks_created = 1
  /\ LastCall(matLog).blocks_skipped = 0
  /\ \E b \in blocks : b.business_id = "b2" /\ BlockKey(b) = <<"b2", "s1", 1, 540, 1020>>
  /\ \E b \in blocks : b.business_id = "b1" /\ BlockKey(b) = <<"b1", "s1", 1, 540, 1020>>
  /\ \E r \in rules : r.business_id = "b2" /\ r.is_active
  /\ \E a \in appts : a.business_id = "b2"

\* ------------------------------------------------------------------- C25
\* blocks late in the day, start_time < end_time, as the time inputs of
\* NewAvailabilityModal accept them: ending at 23:45, 23:50 and 23:59
LateBlockInputs ==
  { [business_id |-> "b1", staff_id |-> "s1", date |-> 1, start_time |-> 1320, end_time |-> 1425, max_clients |-> 1],
    [business_id |-> "b1", staff_id |-> "s1", date |-> 1, start_time |-> 1380, end_time |-> 1430, max_clients |-> 1],
    [business_id |-> "b1", staff_id |-> "s1", date |-> 1, start_time |-> 1380, end_time |-> 1439, max_clients |-> 2],
    [business_id |-> "b1", staff_id |-> NoStaff, date |-> 1, start_time |-> 1430, end_time |-> 1435, max_clients |-> 1] }

LateAppointmentInputs == { in \in AppointmentInputs : in.time = 1410 }

NextLate ==
  \/ \E in \in LateBlockInputs : NewAvailabilitySubmit(in)
  \/ \E in \in LateAppointmentInputs : NewAppointmentSubmit(in)
  \/ \E q \in CapacityQueries : CallFreeSlots(q)

SpecLate == Init /\ [][NextLate]_vars

\* C25: generate_free_time_slots terminates and returns a finite list for
\* every set of availability blocks with start_time < end_time (end_time
\* anywhere up to 23:59) and every service duration of at least one minute.
C25_SlotCallReturns ==
  (slotCall.status = "called" /\ \A b \in blocks : b.start_time < b.end_time)
    => slotCall.result.status = "ok"

\* ------------------------------------------------------------------- C26
\* ---- PublicBookingPage, steps 1-5, for one visitor of business b1.  The
\* ---- answers of the two queries of DateTimeSelectionStep are taken as
\* ---- arriving before the visitor's next click.
WizardBusiness == "b1"

\* fetchAvailableTimeSlots: no barber gives [], an RPC error gives [], otherwise
\* data.free_slots
FetchTimeSlots(w) ==
  IF w.selectedBarberId = NoStaff THEN { {} }
  ELSE { Offered(generate_free_time_slots(blocks, appts,
                   [business_id |-> WizardBusiness, staff_id |-> w.selectedBarberId,
                    date |-> w.selectedDate[1], duration |-> w.selectedService[1]], ord)) :
           ord \in BlockOrders(MatchingBlocks(blocks,
                   [business_id |-> WizardBusiness, staff_id |-> w.selectedBarberId,
                    date |-> w.selectedDate[1], duration |-> w.selectedService[1]])) }

\* fetchAvailableDates: the dates of the blocks of the barber (of no barber
\* when none is selected) from today on
AvailableDates(w) ==
  { b.date : b \in { x \in blocks : /\ x.business_id = WizardBusiness
                                    /\ x.staff_id = w.selectedBarberId
                                    /\ x.date \in BookingDates } }

\* DateTimeSelectionStep is mounted: its effects run, the second one only
\* when a date is selected
MountDateTime(w) ==
  { [w EXCEPT !.currentStep = 4, !.availableTimeSlots = slots] :
      slots \in IF w.selectedDate # <<>> THEN FetchTimeSlots(w) ELSE { {} } }

WizardStep(next) ==
  /\ wizard' = next
  /\ matLog' = <<>>
  /\ slotCall' = NoSlotCall
  /\ UNCHANGED <<page, blocks, appts, rules, client, mat, customers>>

\* PhoneVerificationStep onNext
PhoneNext ==
  /\ wizard.currentStep = 1
  /\ WizardStep([wizard EXCEPT !.currentStep = 2])

\* BarberSelectionStep: a barber's button or "No preference"
SelectBarber(b) ==
  /\ wizard.currentStep = 2
  /\ WizardStep([wizard EXCEPT !.selectedBarberId = b])

\* ServiceSelectionStep: a service's button
SelectService(d) ==
  /\ wizard.currentStep = 3
  /\ WizardStep([wizard EXCEPT !.selectedService = <<d>>])

\* a date button: setSelectedDate(date); setSelectedTime(''); the effect on
\* selectedDate fetches the slots when the date has changed
SelectDate(d) ==
  /\ wizard.currentStep = 4
  /\ d \in AvailableDates(wizard)
  /\ \E slots \in IF wizard.selectedDate = <<d>> THEN {wizard.availableTimeSlots}
                  ELSE FetchTimeSlots([wizard EXCEPT !.selectedDate = <<d>>]) :
       WizardStep([wizard EXCEPT !.selectedDate = <<d>>, !.selectedTime = <<>>,
                                 !.availableTimeSlots = slots])

\* a time button of the list shown
SelectTime(t) ==
  /\ wizard.currentStep = 4
  /\ wizard.selectedDate # <<>>
  /\ t \in wizard.availableTimeSlots
  /\ WizardStep([wizard EXCEPT !.selectedTime = t])

\* Continue: always enabled on step 2, disabled without a service on step 3,
\* disabled without a date or a time on step 4
Continue ==
  \/ /\ wizard.currentStep = 2
     /\ WizardStep([wizard EXCEPT !.currentStep = 3])
  \/ /\ wizard.currentStep = 3
     /\ wizard.selectedService # <<>>
     /\ \E next \in MountDateTime(wizard) : WizardStep(next)
  \/ /\ wizard.currentStep = 4
     /\ wizard.selectedDate # <<>>
     /\ wizard.selectedTime # <<>>
     /\ WizardStep([wizard EXCEPT !.currentStep = 5, !.availableTimeSlots = {}])

\* Back
Back ==
  \/ /\ wizard.currentStep \in {2, 3}
     /\ WizardStep([wizard EXCEPT !.currentStep = @ - 1])
  \/ /\ wizard.currentStep = 4
     /\ WizardStep([wizard EXCEPT !.currentStep = 3, !.availableTimeSlots = {}])
  \/ /\ wizard.currentStep = 5
     /\ \E next \in MountDateTime(wizard) : WizardStep(next)

\* the tables the visitor finds: s1's day, a block for all staff, one booking
InitWizard ==
  /\ blocks \in
        { t \in SUBSET UNION { InsertBlock({}, BlockKey(in), in.max_clients) :
                                 in \in { x \in BlockInputs : /\ x.business_id = WizardBusiness
                                                              /\ x.max_clients = 1
                                                              /\ x.start_time < 720 } } :
            t # {} }
  /\ appts \in
        { {}, InsertAppt({}, [business_id |-> WizardBusiness, staff_id |-> "s1", customer_id |-> "c1",
                              date |-> 1, time |-> 600, duration |-> 30], "internal") }
  /\ rules = {}
  /\ client = [c \in Clients |-> IdleClient]
  /\ slotCall = NoSlotCall
  /\ mat = [p \in MatProcs |-> IdleMat]
  /\ matLog = <<>>
  /\ customers = [c \in Customers |-> NewCustomer]
  /\ wizard = NewWizard
  /\ page = NewPage

NextWizard ==
  \/ PhoneNext
  \/ \E b \in Staff \cup {NoStaff} : SelectBarber(b)
  \/ \E d \in Durations : SelectService(d)
  \/ \E d \in BookingDates : SelectDate(d)
  \/ \E t \in wizard.availableTimeSlots : SelectTime(t)
  \/ Continue
  \/ Back

SpecWizard == InitWizard /\ [][NextWizard]_vars

\* C26: whenever the confirmation step is shown, selectedTime is a member of
\* the free-slot list computed for the currently selected staff, service
\* duration and date, after any sequence of Continue/Back navigation and
\* re-selection of staff, service or date.
C26_ConfirmedTimeIsOffered ==
  wizard.currentStep = 5 =>
    \E slots \in FetchTimeSlots(wizard) : wizard.selectedTime \in slots

\* ------------------------------------------------------------------- C27
\* deleteAvailabilityBlock: DELETE FROM availability_blocks WHERE id = blockId
deleteAvailabilityBlock(b) ==
  /\ b \in blocks
  /\ blocks' = blocks \ {b}
  /\ matLog' = <<>>
  /\ slotCall' = NoSlotCall
  /\ UNCHANGED <<page, appts, rules, client, mat, customers, wizard>>

\* both booking surfaces, the status dropdown and the block list of the settings
NextCover ==
  \/ NextBook
  \/ \E b \in blocks : deleteAvailabilityBlock(b)

SpecCover == Init /\ [][NextCover]_vars

\* C27: every booking with status scheduled and a staff member lies inside
\* some availability block of its business and date whose staff is that staff
\* member or null: block.start_time <= time and time + duration <=
\* block.end_time.
C27_ScheduledInsideBlock ==
  \A a \in appts :
    (a.status = "scheduled" /\ a.staff_id # NoStaff) =>
      \E b \in blocks :
        /\ b.business_id = a.business_id
        /\ b.date = a.date
        /\ b.staff_id \in {a.staff_id, NoStaff}
        /\ b.start_time <= a.time
        /\ a.time + a.duration <= b.end_time

\* ------------------------------------------------------------------- C28
\* ---- BookingsPage: the status dropdown with its optimistic update
MaxCalls == 2

\* appointments.map(apt => apt.id === appointmentId ? {...apt, status} : apt)
WithStatus(shown, id, s) == { IF x[1] = id THEN <<id, s>> ELSE x : x \in shown }

\* updateAppointmentStatus up to the request: the list the click handler
\* closes over is kept as oldAppointments, the new status is shown at once.
\* The dropdown of an appointment is disabled only while updatingStatus is its
\* id; calls in flight are on different appointments.
StatusClick(id, s) ==
  /\ Cardinality(page.calls) < MaxCalls
  /\ \E x \in page.shown : x[1] = id
  /\ page.updatingStatus # <<id>>
  /\ \A c \in page.calls : c.id # id
  /\ page' = [shown |-> WithStatus(page.shown, id, s),
              updatingStatus |-> <<id>>,
              calls |-> page.calls \cup { [id |-> id, status |-> s, oldAppointments |-> page.shown] }]
  /\ matLog' = <<>>
  /\ slotCall' = NoSlotCall
  /\ UNCHANGED <<blocks, appts, rules, client, mat, customers, wizard>>

\* the request succeeds: the row is updated (the trigger runs); finally
\* setUpdatingStatus(null)
StatusSettled(c) ==
  /\ c \in page.calls
  /\ \E a \in appts :
       /\ a.id = c.id
       /\ StatsFires("UPDATE", a.status, [a EXCEPT !.status = c.status])
            => customers[a.customer_id].total_visits < MaxVisits
       /\ appts' = (appts \ {a}) \cup { [a EXCEPT !.status = c.status] }
       /\ customers' = update_customer_stats(customers, "UPDATE", a.status, [a EXCEPT !.status = c.status])
  /\ page' = [page EXCEPT !.calls = @ \ {c}, !.updatingStatus = <<>>]
  /\ matLog' = <<>>
  /\ slotCall' = NoSlotCall
  /\ UNCHANGED <<blocks, rules, client, mat, wizard>>

\* the request fails: setAppointments(oldAppointments); finally
\* setUpdatingStatus(null)
StatusFailed(c) ==
  /\ c \in page.calls
  /\ page' = [shown |-> c.oldAppointments, updatingStatus |-> <<>>, calls |-> page.calls \ {c}]
  /\ matLog' = <<>>
  /\ slotCall' = NoSlotCall
  /\ UNCHANGED <<blocks, appts, rules, client, mat, customers, wizard>>

\* the day's list as fetchData has loaded it: two scheduled appointments
InitPage ==
  /\ blocks = {}
  /\ appts = InsertAppt(InsertAppt({}, [business_id |-> "b1", staff_id |-> "s1", customer_id |-> "c1",
                                        date |-> 1, time |-> 600, duration |-> 30], "internal"),
                        [business_id |-> "b1", staff_id |-> "s1", customer_id |-> "c2",
                         date |-> 1, time |-> 660, duration |-> 30], "online")
  /\ rules = {}
  /\ client = [c \in Clients |-> IdleClient]
  /\ slotCall = NoSlotCall
  /\ mat = [p \in MatProcs |-> IdleMat]
  /\ matLog = <<>>
  /\ customers = [c \in Customers |-> NewCustomer]
  /\ wizard = NewWizard
  /\ page = [NewPage EXCEPT !.shown = { <<a.id, a.status>> : a \in appts }]

NextPage ==
  \/ \E a \in appts, s \in { "completed", "cancelled" } : StatusClick(a.id, s)
  \/ \E c \in page.calls : StatusSettled(c)
  \/ \E c \in page.calls : StatusFailed(c)

SpecPage == InitPage /\ [][NextPage]_vars

\* C28: once every updateAppointmentStatus call in flight has settled, each
\* succeeding or failing, the status shown for each appointment of the list
\* is the appointment's stored status.
C28_ShownIsStored ==
  page.calls = {} =>
    \A x \in page.shown : \E a \in appts : a.id = x[1] /\ a.status = x[2]


\* ------------------------------------------------------------------- C29
\* a slot is available whenever no appointment starts exactly at it
IsAvailableSameStart(as, q, cur, slotEnd) ==
  ~ \E a \in as :
      /\ a.business_id = q.business_id
      /\ SqlEq(a.staff_id, q.staff_id)
      /\ a.date = q.date
      /\ a.status = "scheduled"
      /\ cur = a.time

\* The earlier generate_free_time_slots, from before availability_blocks had
\* max_clients: the inner FOR loop over the scheduled appointments of the asked
\* barber clears v_is_available at the first one that overlaps the slot.
IsAvailable(as, q, cur, slotEnd) ==
  ~ \E a \in as :
      /\ a.business_id = q.business_id
      /\ SqlEq(a.staff_id, q.staff_id)
      /\ a.date = q.date
      /\ a.status = "scheduled"
      /\ cur < AddMinutes(a.time, a.duration)
      /\ slotEnd > a.time

\* the WHILE loop of the earlier version over one block (the same walk over
\* the time type as WalkBlock, the block's max_clients is not read)
RECURSIVE WalkBlockBoolean(_, _, _, _, _, _)
WalkBlockBoolean(as, b, q, cur, seen, out) ==
  IF ~(cur < b.end_time) THEN [returns |-> TRUE, free |-> out]
  ELSE IF cur \in seen THEN [returns |-> FALSE, free |-> out]
  ELSE IF cur + SlotStep >= MinutesPerDay THEN [returns |-> FALSE, free |-> out]
  ELSE LET slotEnd == AddMinutes(cur, q.duration)
           take == slotEnd <= b.end_time /\ IsAvailable(as, q, cur, slotEnd)
       IN WalkBlockBoolean(as, b, q, AddMinutes(cur, SlotStep), seen \cup {cur},
                           IF take THEN Append(out, ToChar(cur)) ELSE out)

RECURSIVE ConcatBlocksBoolean(_, _, _, _, _)
ConcatBlocksBoolean(as, q, ord, i, acc) ==
  IF i > Len(ord) THEN [status |-> "ok", free_slots |-> acc]
  ELSE LET r == WalkBlockBoolean(as, ord[i], q, ord[i].start_time, {}, <<>>)
       IN IF ~r.returns THEN [status |-> "timeout", free_slots |-> <<>>]
          ELSE ConcatBlocksBoolean(as, q, ord, i + 1, acc \o r.free)

\* the earlier generate_free_time_slots(p_barber_id, p_business_id, p_date,
\* p_service_duration) for one order ord of the rows its FOR loop reads (the
\* same WHERE and ORDER BY as the capacity-aware version)
generate_free_time_slots_boolean(bs, as, q, ord) == ConcatBlocksBoolean(as, q, ord, 1, <<>>)

\* C29: when every block the call reads has max_clients = 1, the capacity-aware
\* generate_free_time_slots returns exactly the free_slots list the earlier
\* boolean-availability version returns for the same tables and arguments: for
\* every order of the rows both give the same answer, and the answer the call
\* gave is that one.
C29_CapacityOneIsBoolean ==
  (/\ slotCall.status = "called"
   /\ \A b \in MatchingBlocks(blocks, slotCall.q) : b.max_clients = 1) =>
    /\ \A ord \in BlockOrders(MatchingBlocks(blocks, slotCall.q)) :
         generate_free_time_slots(blocks, appts, slotCall.q, ord)
           = generate_free_time_slots_boolean(blocks, appts, slotCall.q, ord)
    /\ \E ord \in BlockOrders(MatchingBlocks(blocks, slotCall.q)) :
         slotCall.result = generate_free_time_slots_boolean(blocks, appts, slotCall.q, ord)

\* a call over blocks of capacity 1 with a scheduled booking at 10:00: 10:00
\* is left out and 10:30 is in the list
C29_Witness ==
  /\ slotCall.status = "called"
  /\ slotCall.result.status = "ok"
  /\ slotCall.q.duration = 30
  /\ MatchingBlocks(blocks, slotCall.q) # {}
  /\ \A b \in MatchingBlocks(blocks, slotCall.q) : b.max_clients = 1
  /\ \E a \in RequestOverlaps(appts, slotCall.q, 600) : a.time = 600
  /\ <<10, 0>> \notin Offered(slotCall.result)
  /\ <<10, 30>> \in Offered(slotCall.result)


\* ------------------------------------------------------------------- C30
\* C30: after any sequence of appointment inserts and status updates, each
\* customer's total_visits equals the number of that customer's appointments
\* that are completed now.
C30_VisitsAreCompleted ==
  \A c \in Customers : customers[c].total_visits
    = Cardinality({ a \in appts : a.customer_id = c /\ a.status = "completed" })

====
